---- MODULE Spec2Model ----
(***************************************************************************)
(* toybox xargs (toys/posix/xargs.c): the tokenizer handle_entries and the *)
(* batch loop of xargs_main, as a state machine.                           *)
(*                                                                         *)
(* A C string is a sequence of characters; the byte after its last         *)
(* element is the terminating NUL.  A pointer that may be NULL is a        *)
(* sequence of length 0 (NULL) or 1 (the thing pointed to).                *)
(***************************************************************************)
EXTENDS Integers, Sequences, FiniteSets, TLC

VARIABLES
  toys,     \* toys.optargs, toys.optc, toys.optflags (the command line)
  TT,       \* GLOBALS: s, n, E, entries, bytes, delim, tty
  host,     \* sysconf(_SC_ARG_MAX), environ_bytes(), how a child may end
  stdin,    \* unread standard input
  given,    \* history: standard input and the -s value as they were at start
  pc,       \* position of xargs_main
  dlist,    \* the lines of the batch being assembled, head first
  entries,  \* local: number of fixed arguments
  bytes,    \* local: bytes accounted to the fixed arguments
  done,     \* local
  status,   \* local: decoded child status, <<>> before the first wait
  data,     \* local: NULL or the line (fragment) not yet counted
  out,      \* local: the argument vector, a sequence of pointers
  doit,     \* local
  child,    \* the argv of each child in flight, oldest first
  log,      \* history: every batch that reached line 191, with doit
  stopHit,  \* history: handle_entries returned 2 (matched -E STR)
  reaped,   \* history: how the child last waited for ended, NULL before
  ttyfile,  \* history: how often /dev/tty was opened and closed
  mark      \* history: <<stdin, data, done>> when the loop body was last entered

vars == <<toys, TT, host, stdin, given, pc, dlist, entries, bytes, done,
          status, data, out, doit, child, log, stopHit, reaped, ttyfile,
          mark>>

----------------------------------------------------------------------------
(* Bounds of the model *)

\* longest standard input, in bytes, when every option is tried
MaxInput == 3
\* longest standard input of text, in bytes
MaxText == 5
\* longest standard input of NUL terminated records, in bytes
MaxRecords == 6
\* how often the same leftover line may be appended to an unfreed dlist
MaxLeak == 2

(* Program constants *)

\* sizeof(char *)
PtrSize == 8
\* the POSIX reserve
Reserve == 2048
\* the sentinel exit code of the help text
Sentinel == 255

----------------------------------------------------------------------------
(* Characters and C strings *)

NUL == "NUL"
SP == " "
NL == "\n"
TAB == "\t"

NULL == <<>>
Ptr(x) == <<x>>

isspace(c) == c \in {SP, NL, TAB}

\* *s for s an index into a buffer: past its end lies the terminating NUL
At(mem, s) == IF s >= 1 /\ s <= Len(mem) THEN mem[s] ELSE NUL

RECURSIVE strlenAt(_, _)
strlenAt(mem, s) == IF At(mem, s) = NUL THEN 0 ELSE 1 + strlenAt(mem, s + 1)

\* the C string that starts at index s of a buffer
CStr(mem, s) == SubSeq(mem, s, s + strlenAt(mem, s) - 1)

strlen(str) == strlenAt(str, 1)

----------------------------------------------------------------------------
(* handle_entries: the tokenizer *)

\* what handle_entries hands back: ret is "null" (NULL, need more data),
\* "left" (a char * into the line, at index off), "one" ((char *)1) or
\* "two" ((char *)2); entries and bytes are TT.entries and TT.bytes after the
\* call, mem is the line after the call, writes the stores entry[idx] = mem+off
Result(ret, off, ent, byt, mem, writes) ==
  [ret |-> ret, off |-> off, entries |-> ent, bytes |-> byt, mem |-> mem,
   writes |-> writes]

\* SkipSpace as it would be if the filling pass left the blanks in place
\* (tokens would run on into what follows them, and C4 fails)
RECURSIVE SkipSpace_NoTerminate(_, _, _)
SkipSpace_NoTerminate(mem, s, fill) ==
  IF isspace(At(mem, s))
  THEN SkipSpace_NoTerminate(mem, s + 1, fill)
  ELSE [mem |-> mem, s |-> s]

\* lines 64-67: while (isspace(*s)) { if (entry) *s = 0; s++; }
RECURSIVE SkipSpace(_, _, _)
SkipSpace(mem, s, fill) ==
  IF isspace(At(mem, s))
  THEN SkipSpace(IF fill THEN [mem EXCEPT ![s] = NUL] ELSE mem, s + 1, fill)
  ELSE [mem |-> mem, s |-> s]

\* ScanToken as it would be if the budget were tested at the first byte of
\* a token only (a long token would pass, and C6 fails)
RECURSIVE ScanToken_CheckOnce(_, _, _, _)
ScanToken_CheckOnce(mem, s, byt, lim) ==
  LET b == byt + 1
  IN  IF b >= lim /\ lim # 0 THEN [hit |-> TRUE, s |-> s, bytes |-> b]
      ELSE IF At(mem, s) = NUL \/ isspace(At(mem, s))
           THEN [hit |-> FALSE, s |-> s, bytes |-> b]
           ELSE ScanToken_CheckOnce(mem, s + 1, b, 0)

\* lines 78-82: for (;;) { if (++TT.bytes >= TT.s && TT.s) return save; ... }
RECURSIVE ScanToken(_, _, _, _)
ScanToken(mem, s, byt, lim) ==
  LET b == byt + 1
  IN  IF b >= lim /\ lim # 0 THEN [hit |-> TRUE, s |-> s, bytes |-> b]
      ELSE IF At(mem, s) = NUL \/ isspace(At(mem, s))
           THEN [hit |-> FALSE, s |-> s, bytes |-> b]
           ELSE ScanToken(mem, s + 1, b, lim)

\* MatchesE as it would be without the test of the length (a token that
\* only starts with STR would stop the input, and C2 fails)
MatchesE_NoLength(t, mem, save, s) ==
  /\ t.E # NULL
  /\ s - save >= strlen(t.E[1])
  /\ SubSeq(mem, save, save + strlen(t.E[1]) - 1) = t.E[1]

\* lines 83-87: the -E STR comparison of the token mem[save .. s-1]
MatchesE(t, mem, save, s) ==
  /\ t.E # NULL
  /\ s - save = strlen(t.E[1])
  /\ SubSeq(mem, save, s - 1) = SubSeq(t.E[1], 1, s - save)

\* EntriesFull as it would be with > for >= (batches of N+1, and C3 fails)
EntriesFull_OffByOne(t, ent) == t.n # 0 /\ ent > t.n

\* lines 69-70: the -n test made before each token
EntriesFull(t, ent) == t.n # 0 /\ ent >= t.n

\* HitAt as it would be if the place the budget ran out were handed back
\* (the token would be split there, and C12 fails)
HitAt_Current(save, s) == s

\* line 79: return save, the start of the token the budget ran out in (s is
\* where it ran out)
HitAt(save, s) == save

\* lines 61-90: chop up a whitespace delimited string into args.
\* t is TT; s, ent, byt, mem, writes are the loop's running state.
RECURSIVE Chop(_, _, _, _, _, _, _)
Chop(t, fill, mem, s, ent, byt, writes) ==
  IF At(mem, s) = NUL THEN Result("null", 0, ent, byt, mem, writes)
  ELSE
    LET sk == SkipSpace(mem, s, fill)
        save == sk.s
    IN  IF EntriesFull(t, ent)
        THEN IF At(sk.mem, sk.s) # NUL
             THEN Result("left", sk.s, ent, byt, sk.mem, writes)
             ELSE Result("one", 0, ent, byt, sk.mem, writes)
        ELSE IF At(sk.mem, sk.s) = NUL
        THEN Result("null", 0, ent, byt, sk.mem, writes)
        ELSE
          LET sc == ScanToken(sk.mem, save, byt, t.s)
          IN  IF sc.hit
              THEN Result("left", HitAt(save, sc.s), ent, sc.bytes, sk.mem,
                          writes)
              ELSE IF MatchesE(t, sk.mem, save, sc.s)
              THEN Result("two", 0, ent, sc.bytes, sk.mem, writes)
              ELSE Chop(t, fill, sk.mem, sc.s, ent + 1, sc.bytes,
                        IF fill
                        THEN Append(writes, [idx |-> ent, off |-> save])
                        ELSE writes)

\* lines 93-99: -0 support, the whole line is one argument
NullEntry(t, fill, mem) ==
  LET b == t.bytes + PtrSize + strlen(mem) + 1
  IN  IF t.s # 0 /\ b >= t.s THEN Result("left", 1, t.entries, b, mem, <<>>)
      ELSE IF t.n # 0 /\ t.entries >= t.n
      THEN Result("left", 1, t.entries, b, mem, <<>>)
      ELSE Result("null", 0, t.entries + 1, b, mem,
                  IF fill THEN <<[idx |-> t.entries, off |-> 1]>> ELSE <<>>)

\* handle_entries as it would be if -0 input were chopped at blanks too
\* (C10 fails)
handle_entries_AlwaysChop(t, mem, fill) ==
  Chop(t, fill, mem, 1, t.entries, t.bytes, <<>>)

\* lines 55-102: fill is "entry != NULL"
handle_entries(t, mem, fill) ==
  IF t.delim # NUL
  THEN Chop(t, fill, mem, 1, t.entries, t.bytes, <<>>)
  ELSE NullEntry(t, fill, mem)

----------------------------------------------------------------------------
(* xargs_main *)

FLAG(x) == x \in toys.optflags

Echo == <<"e", "c", "h", "o">>

\* line 117: posix_max_bytes
posix_max_bytes == host.arg_max - host.environ_bytes - Reserve

\* line 118: the -s value after it is clamped
ClampS(s) == IF s = 0 \/ s > posix_max_bytes THEN posix_max_bytes ELSE s

RECURSIVE SumLen(_)
SumLen(strs) ==
  IF strs = <<>> THEN 0 ELSE strlen(Head(strs)) + 1 + SumLen(Tail(strs))

\* lines 129-130: bytes of the fixed arguments, starting from -1
PrefixBytes(optargs) == SumLen(optargs) - 1

\* line 145: getdelim, the chunk up to and including the first delimiter
RECURSIVE DelimAt(_, _, _)
DelimAt(in, d, i) ==
  IF i > Len(in) THEN Len(in) ELSE IF in[i] = d THEN i ELSE DelimAt(in, d, i + 1)

GetDelim(in, d) == SubSeq(in, 1, DelimAt(in, d, 1))

\* a pointer stored in out[]: into toys.optargs[i] or into line i of dlist
OptPtr(i) == Ptr([seg |-> "optargs", i |-> i, off |-> 1])
LinePtr(i, off) == Ptr([seg |-> "dlist", i |-> i, off |-> off])

\* the string a pointer of out[] points to
Deref(p, optargs, dl) ==
  IF p[1].seg = "optargs" THEN optargs[p[1].i] ELSE CStr(dl[p[1].i], p[1].off)

\* the strings of a NULL terminated vector (what exec and the trace loop read)
RECURSIVE Argv(_, _, _)
Argv(o, optargs, dl) ==
  IF o = <<>> \/ Head(o) = NULL THEN <<>>
  ELSE <<Deref(Head(o), optargs, dl)>> \o Argv(Tail(o), optargs, dl)

\* lines 177-178: handle_entries(dtemp->data, out+entries) over the list.
\* acc is [TT, dlist (lines already visited), writes (node, idx, off)].
RECURSIVE FillPass(_, _, _)
FillPass(t, dl, i) ==
  IF i > Len(dl) THEN [TT |-> t, dlist |-> dl, writes |-> <<>>]
  ELSE
    LET r == handle_entries(t, dl[i], TRUE)
        rest == FillPass([t EXCEPT !.entries = r.entries, !.bytes = r.bytes],
                         [dl EXCEPT ![i] = r.mem], i + 1)
    IN  [rest EXCEPT !.writes =
           [k \in 1..Len(r.writes) |->
              [node |-> i, idx |-> r.writes[k].idx, off |-> r.writes[k].off]]
           \o rest.writes]

\* out after the stores (out+entries)[idx] = line + off, in order
RECURSIVE Store(_, _, _)
Store(o, base, writes) ==
  IF writes = <<>> THEN o
  ELSE Store([o EXCEPT ![base + Head(writes).idx + 1] =
                LinePtr(Head(writes).node, Head(writes).off)],
             base, Tail(writes))

InBounds(o, base, writes) ==
  \A k \in 1..Len(writes) : base + writes[k].idx + 1 <= Len(o)

----------------------------------------------------------------------------
(* The state machine *)

\* lines 117-130: clamp -s, set the delimiter, default to echo, size the prefix
Setup ==
  /\ pc = "start"
  /\ LET optargs == IF toys.optc = 0 THEN <<Echo>> ELSE toys.optargs
     IN  /\ toys' = [toys EXCEPT !.optargs = optargs, !.optc = Len(optargs)]
         /\ TT' = [TT EXCEPT !.s = ClampS(TT.s),
                             !.delim = IF "0" \in toys.optflags THEN NUL ELSE NL]
         /\ entries' = Len(optargs)
         /\ bytes' = PrefixBytes(optargs)
  /\ pc' = "loop"
  /\ UNCHANGED <<host, stdin, given, dlist, done, status, data, out, doit,
                 child, log, stopHit, reaped, ttyfile, mark>>

\* LoopCond as it would be if one end of input did not end the loop (a
\* second empty batch, and C9 fails)
LoopCond_OneMore(d, dn) == d # NULL \/ dn <= 1

\* line 133: while (data || !done)
LoopCond(d, dn) == d # NULL \/ dn = 0

\* lines 133-137, and line 212 when the loop is left
LoopTest ==
  /\ pc = "loop"
  /\ IF LoopCond(data, done)
     THEN /\ doit' = 1
          /\ TT' = [TT EXCEPT !.entries = 0, !.bytes = bytes]
          /\ mark' = Ptr(<<stdin, data, done>>)
          /\ pc' = "read"
          /\ UNCHANGED ttyfile
     ELSE /\ ttyfile' = IF TT.tty # NULL
                        THEN [ttyfile EXCEPT !.closes = @ + 1]
                        ELSE ttyfile
          /\ pc' = "exit"
          /\ UNCHANGED <<TT, doit, mark>>
  /\ UNCHANGED <<toys, host, stdin, given, dlist, entries, bytes, done,
                 status, data, out, child, log, stopHit, reaped>>

\* lines 140-163: one turn of the loop reading input
ReadLine ==
  /\ pc = "read"
  /\ Len(dlist) < Len(given.stdin) + MaxLeak
  /\ IF data = NULL /\ stdin = <<>>
     THEN \* lines 147-151: end of input
          /\ done' = done + 1
          /\ pc' = "check"
          /\ UNCHANGED <<stdin, data, dlist, TT, stopHit>>
     ELSE LET line == IF data = NULL THEN GetDelim(stdin, TT.delim) ELSE data[1]
              r == handle_entries(TT, line, FALSE)
          IN  /\ stdin' = IF data = NULL
                          THEN SubSeq(stdin, Len(line) + 1, Len(stdin))
                          ELSE stdin
              /\ dlist' = Append(dlist, line)
              /\ TT' = [TT EXCEPT !.entries = r.entries, !.bytes = r.bytes]
              /\ IF r.ret = "null"
                 THEN /\ data' = NULL
                      /\ pc' = "read"
                      /\ UNCHANGED <<done, stopHit>>
                 ELSE /\ done' = IF r.ret = "two" THEN done + 1 ELSE done
                      /\ stopHit' = (stopHit \/ r.ret = "two")
                      /\ data' = IF r.ret = "left"
                                 THEN Ptr(CStr(line, r.off))
                                 ELSE NULL
                      /\ pc' = "check"
  /\ UNCHANGED <<toys, host, given, entries, bytes, status, out, doit, child,
                 log, reaped, ttyfile, mark>>

\* BatchFate as it would be without the -r test (C8 fails)
BatchFate_IgnoreR(t, d, r) ==
  IF d # NULL /\ t.entries = 0 THEN "fatal" ELSE "fill"

\* lines 165 and 169: what becomes of the batch just counted
BatchFate(t, d, r) ==
  IF t.entries = 0 /\ r THEN "continue"
  ELSE IF d # NULL /\ t.entries = 0 THEN "fatal"
  ELSE "fill"

\* lines 165-169
Check ==
  /\ pc = "check"
  /\ pc' = CASE BatchFate(TT, data, FLAG("r")) = "continue" -> "loop"
             [] BatchFate(TT, data, FLAG("r")) = "fatal" -> "fatal"
             [] OTHER -> "fill"
  /\ UNCHANGED <<toys, TT, host, stdin, given, dlist, entries, bytes, done,
                 status, data, out, doit, child, log, stopHit, reaped, ttyfile, mark>>

\* FillReset as it would be without line 175 (the filling pass would start
\* from the bytes already counted and stop early, and C13 fails)
FillReset_KeepBytes(t, b) == [t EXCEPT !.entries = 0]

\* lines 174-175: TT.entries = 0; TT.bytes = bytes;
FillReset(t, b) == [t EXCEPT !.entries = 0, !.bytes = b]

\* lines 170-178: allocate out, copy the prefix, run the filling pass.
\* A store past the end of out is a heap overflow: pc = "overflow".
Fill ==
  /\ pc = "fill"
  /\ LET size == entries + TT.entries + 1
         out0 == [k \in 1..size |-> IF k <= entries THEN OptPtr(k) ELSE NULL]
         f == FillPass(FillReset(TT, bytes), dlist, 1)
     IN  /\ TT' = f.TT
         /\ dlist' = f.dlist
         /\ IF InBounds(out0, entries, f.writes)
            THEN /\ out' = Store(out0, entries, f.writes)
                 /\ pc' = "confirm"
            ELSE /\ out' = out0
                 /\ pc' = "overflow"
  /\ UNCHANGED <<toys, host, stdin, given, entries, bytes, done, status, data,
                 doit, child, log, stopHit, reaped, ttyfile, mark>>

\* NeedOpen as it would be if every prompt opened the terminal (C16 fails)
NeedOpen_Always(tty) == TRUE

\* line 186: if (!TT.tty)
NeedOpen(tty) == tty = NULL

\* AfterConfirm as it would be if the answer were not looked at (C15 fails)
AfterConfirm_Always(d) == "spawn"

\* line 191: if (doit)
AfterConfirm(d) == IF d # 0 THEN "spawn" ELSE "free"

\* lines 180-191: trace, prompt, and the test of doit
Confirm ==
  /\ pc = "confirm"
  /\ IF FLAG("p")
     THEN /\ TT' = [TT EXCEPT !.tty = Ptr("/dev/tty")]
          /\ ttyfile' = IF NeedOpen(TT.tty)
                        THEN [ttyfile EXCEPT !.opens = @ + 1]
                        ELSE ttyfile
          /\ doit' \in {0, 1}
     ELSE UNCHANGED <<TT, doit, ttyfile>>
  /\ log' = Append(log, [argv |-> Argv(out, toys.optargs, dlist),
                         ran |-> doit' # 0])
  /\ pc' = AfterConfirm(doit')
  /\ UNCHANGED <<toys, host, stdin, given, dlist, entries, bytes, done,
                 status, data, out, child, stopHit, reaped, mark>>

\* AfterSpawn as it would be if the parent did not wait for the child (the
\* lines would be freed under it, and C17 fails)
AfterSpawn_NoWait == "free"

\* line 198: the parent goes on to waitpid
AfterSpawn == "wait"

\* lines 192-197: the child execs out
Spawn ==
  /\ pc = "spawn"
  /\ child' = Append(child, Argv(out, toys.optargs, dlist))
  /\ pc' = AfterSpawn
  /\ UNCHANGED <<toys, TT, host, stdin, given, dlist, entries, bytes, done,
                 status, data, out, doit, log, stopHit, reaped, ttyfile, mark>>

\* line 199
Decode(w) == IF w.exited THEN w.n ELSE w.n + 127

\* lines 198-199: waitpid and the decoding of the status
Wait ==
  /\ pc = "wait"
  /\ \E w \in host.children :
       /\ reaped' = Ptr(w)
       /\ status' = Ptr(Decode(w))
  /\ child' = Tail(child)
  /\ pc' = "free"
  /\ UNCHANGED <<toys, TT, host, stdin, given, dlist, entries, bytes, done,
                 data, out, doit, log, stopHit, ttyfile, mark>>

\* lines 203-210: free the lines and out
Free ==
  /\ pc = "free"
  /\ dlist' = <<>>
  /\ out' = <<>>
  /\ pc' = "loop"
  /\ UNCHANGED <<toys, TT, host, stdin, given, entries, bytes, done, status,
                 data, doit, child, log, stopHit, reaped, ttyfile, mark>>

Next ==
  \/ Setup
  \/ LoopTest
  \/ ReadLine
  \/ Check
  \/ Fill
  \/ Confirm
  \/ Spawn
  \/ Wait
  \/ Free

----------------------------------------------------------------------------
(* Initial states: the command line, the host and standard input *)

Inputs(alphabet, maxlen) == UNION {[1..m -> alphabet] : m \in 0..maxlen}

\* the state at entry to xargs_main for one command line, host and input
Start(flags, n, s, E, optargs, h, in) ==
  /\ toys = [optargs |-> optargs, optc |-> Len(optargs), optflags |-> flags]
  /\ TT = [s |-> s, n |-> n, E |-> E, entries |-> 0, bytes |-> 0,
           delim |-> NUL, tty |-> NULL]
  /\ host = h
  /\ stdin = in
  /\ given = [stdin |-> in, s |-> s]
  /\ pc = "start"
  /\ dlist = <<>>
  /\ entries = 0
  /\ bytes = 0
  /\ done = 0
  /\ status = <<>>
  /\ data = NULL
  /\ out = <<>>
  /\ doit = 1
  /\ child = NULL
  /\ log = <<>>
  /\ stopHit = FALSE
  /\ reaped = NULL
  /\ ttyfile = [opens |-> 0, closes |-> 0]
  /\ mark = NULL

\* how a child can end: exit(n) or death by signal n
Exit(n) == [exited |-> TRUE, n |-> n]
Killed(n) == [exited |-> FALSE, n |-> n]

Host(arg_max, environ_bytes, children) ==
  [arg_max |-> arg_max, environ_bytes |-> environ_bytes, children |-> children]

\* the start states over sets of option values, hosts and inputs; the
\* optstring's [!0E] makes -0 and -E exclude each other
InitOver(FlagSets, Ns, Ss, Es, Cmds, Hs, Ins) ==
  \E flags \in FlagSets, n \in Ns, s \in Ss, E \in Es, optargs \in Cmds,
     h \in Hs, in \in Ins :
    /\ ~("0" \in flags /\ E # NULL)
    /\ Start(flags, n, s, E, optargs, h, in)

Children == {Exit(0), Exit(Sentinel), Killed(9)}

\* every option, host and input, on short inputs
Init ==
  InitOver(SUBSET {"0", "r", "p"}, {0, 1, 2}, {0, 3, 5, 30},
           {NULL, Ptr(<<"a">>)}, {<<>>, <<<<"e">>>>},
           {Host(2072, 0, Children), Host(2072, 14, Children)},
           Inputs({"a", SP, NL, NUL}, MaxInput))

Spec == Init /\ [][Next]_vars

\* whitespace mode on text: -n, -s and -E over longer inputs, a command
\* that always exits 0
InitText ==
  InitOver({{}}, {0, 1, 2}, {0, 6}, {NULL, Ptr(<<"b">>)}, {<<<<"e">>>>},
           {Host(2072, 0, {Exit(0)})}, Inputs({"a", "b", SP, NL}, MaxText))

SpecText == InitText /\ [][Next]_vars

\* -0 mode: NUL terminated records that hold blanks
InitNull ==
  InitOver({{"0"}, {"0", "r"}}, {0, 1, 2}, {0, 12}, {NULL}, {<<<<"e">>>>},
           {Host(2072, 0, {Exit(0)})}, Inputs({"a", SP, NUL}, MaxRecords))

SpecNull == InitNull /\ [][Next]_vars

----------------------------------------------------------------------------
(* What the properties speak of *)

\* the words of a text: its maximal runs of characters that are not blank
RECURSIVE WordsFrom(_, _)
WordsFrom(text, word) ==
  IF text = <<>> THEN (IF word = <<>> THEN <<>> ELSE <<word>>)
  ELSE IF Head(text) \in {SP, NL, TAB}
       THEN (IF word = <<>> THEN <<>> ELSE <<word>>) \o WordsFrom(Tail(text), <<>>)
       ELSE WordsFrom(Tail(text), Append(word, Head(text)))

Words(text) == WordsFrom(text, <<>>)

\* the records of a -0 input: each stretch ended by NUL, and a last stretch
\* that is not empty and has no NUL after it
RECURSIVE RecordsFrom(_, _)
RecordsFrom(in, rec) ==
  IF in = <<>> THEN (IF rec = <<>> THEN <<>> ELSE <<rec>>)
  ELSE IF Head(in) = NUL THEN <<rec>> \o RecordsFrom(Tail(in), <<>>)
       ELSE RecordsFrom(Tail(in), Append(rec, Head(in)))

Records(in) == RecordsFrom(in, <<>>)

IsPrefix(a, b) == Len(a) <= Len(b) /\ a = SubSeq(b, 1, Len(a))

\* the arguments a batch adds to the fixed command
Collected(batch) == SubSeq(batch.argv, entries + 1, Len(batch.argv))

\* the collected arguments of the batches l, one after the other
RECURSIVE Flatten(_)
Flatten(l) == IF l = <<>> THEN <<>> ELSE Collected(Head(l)) \o Flatten(Tail(l))

\* the batches that were executed
Executed == SelectSeq(log, LAMBDA b : b.ran)

Started == pc # "start"
WhitespaceMode == ~FLAG("0")

\* the words of a text in front of its first word w
RECURSIVE Before(_, _)
Before(ws, w) ==
  IF ws = <<>> \/ Head(ws) = w THEN <<>> ELSE <<Head(ws)>> \o Before(Tail(ws), w)

Contains(ws, w) == \E k \in 1..Len(ws) : ws[k] = w

----------------------------------------------------------------------------
(* Properties *)

\* C1: once the command run for a batch has ended with decoded exit code
\* 255, no later batch is executed: no child runs while the last decoded
\* status is 255.
C1_SentinelStops == status = Ptr(Sentinel) => child = NULL

\* the byte budget is out of reach of this input: every token fits at once
NoByteLimit == bytes + 2 * Len(given.stdin) < TT.s

\* C2: with stop string E in whitespace mode, neither E nor any token after
\* it is ever placed in a batch (the batches hold, in order, only words in
\* front of the first E), no batch is started after the one in which E was
\* matched, and without limits the words before E make exactly one batch.
C2_StopString ==
  (Started /\ WhitespaceMode /\ TT.E # NULL) =>
    /\ IsPrefix(Flatten(log), Before(Words(given.stdin), TT.E[1]))
    /\ stopHit => pc \notin {"read", "fatal", "overflow"}
    /\ (stopHit /\ pc = "loop") => ~LoopCond(data, done)
    /\ (stopHit /\ pc = "exit" /\ TT.n = 0 /\ NoByteLimit) =>
         /\ Len(log) = 1
         /\ Collected(log[1]) = Before(Words(given.stdin), TT.E[1])

\* C2 witness: tokens a b a with E = b ran as the single batch a
C2_Witness ==
  /\ pc = "exit" /\ stopHit /\ TT.n = 0
  /\ Words(given.stdin) = <<<<"a">>, <<"b">>, <<"a">>>>
  /\ Len(Executed) = 1
  /\ Collected(Executed[1]) = <<<<"a">>>>

\* C3: with -n N and the byte budget out of reach (whitespace mode, no stop
\* string), every batch but the last holds exactly N tokens, the last at most
\* N, and the batches one after the other are the input's words in order,
\* all of them once the run has ended.
C3_MaxEntries ==
  (Started /\ WhitespaceMode /\ TT.E = NULL /\ TT.n # 0 /\ NoByteLimit) =>
    /\ \A k \in 1..Len(log) :
         /\ Len(Collected(log[k])) <= TT.n
         /\ k < Len(log) => Len(Collected(log[k])) = TT.n
    /\ IsPrefix(Flatten(log), Words(given.stdin))
    /\ pc = "exit" => Flatten(Executed) = Words(given.stdin)
    /\ pc \notin {"fatal", "overflow"}

\* C3 witness: three words under -n 2 ran as a batch of two and one of one
C3_Witness ==
  /\ pc = "exit" /\ TT.n = 2 /\ TT.E = NULL /\ NoByteLimit
  /\ Len(Words(given.stdin)) = 3
  /\ Len(Executed) = 2
  /\ Len(Collected(Executed[1])) = 2
  /\ Len(Collected(Executed[2])) = 1

\* C4: with no limits (whitespace mode, no stop string, no -n, the byte
\* budget out of reach) the tokens passed to the command, over all batches,
\* are the input's whitespace separated words in their order.
C4_AllWords ==
  (Started /\ WhitespaceMode /\ TT.E = NULL /\ TT.n = 0 /\ NoByteLimit) =>
    /\ IsPrefix(Flatten(log), Words(given.stdin))
    /\ pc = "exit" => Flatten(Executed) = Words(given.stdin)
    /\ pc \notin {"fatal", "overflow"}

\* C4 witness: an input of two lines and two different words has run
C4_Witness ==
  /\ pc = "exit" /\ TT.E = NULL /\ TT.n = 0 /\ NoByteLimit
  /\ \E k \in 1..Len(given.stdin) - 1 : given.stdin[k] = NL
  /\ Words(given.stdin) = <<<<"a">>, <<"b", "a">>>>
  /\ Flatten(Executed) = Words(given.stdin)

\* the tokens of the input: its words, or with -0 its records
TextInput == \A k \in 1..Len(given.stdin) : given.stdin[k] # NUL
InputTokens ==
  IF WhitespaceMode THEN Words(given.stdin) ELSE Records(given.stdin)

RECURSIVE TotalLen(_)
TotalLen(strs) ==
  IF strs = <<>> THEN 0 ELSE Len(Head(strs)) + TotalLen(Tail(strs))

\* C5: with -s B, when the input holds a token of B bytes or more, the run
\* ends in the fatal "argument too long" before any batch executes: the
\* first time a counted batch is looked at, it is the fatal exit that follows.
C5_TooLongIsFatal ==
  [][(/\ pc = "check"
      /\ given.s > 0
      /\ WhitespaceMode => TextInput
      /\ \E k \in 1..Len(InputTokens) : Len(InputTokens[k]) >= given.s)
     => pc' = "fatal"]_vars

\* C6: with -s B in whitespace mode, the byte lengths of the tokens of a
\* batch, separators not counted, sum to less than B.
C6_TokenBytes ==
  (Started /\ WhitespaceMode /\ given.s > 0) =>
    \A k \in 1..Len(log) : TotalLen(Collected(log[k])) < given.s

\* C6 witness: -s B, below the host's ceiling, cut the input into two
\* batches of tokens and both ran
C6_Witness ==
  /\ pc = "exit" /\ WhitespaceMode /\ TT.n = 0 /\ TT.E = NULL
  /\ given.s > 0 /\ given.s < posix_max_bytes
  /\ Len(Executed) = 2
  /\ Collected(Executed[1]) # <<>>
  /\ Collected(Executed[2]) # <<>>

\* the bytes the code accounts to an argument vector: each fixed argument
\* and each token with its terminator, less one, and with -0 a pointer more
\* for each token
Accounted(batch) ==
  SumLen(batch.argv) - 1
    + (IF WhitespaceMode THEN 0 ELSE PtrSize * Len(Collected(batch)))

Budget ==
  IF given.s = 0 \/ posix_max_bytes < given.s
  THEN posix_max_bytes ELSE given.s

C8_NoEmptyBatch ==
  (Started /\ FLAG("r")) =>
    \A k \in 1..Len(log) : Collected(log[k]) # <<>>

\* C8 witness: -r, an input of blanks only, and the run ended with no batch
C8_Witness ==
  /\ pc = "exit" /\ FLAG("r")
  /\ given.stdin # <<>> /\ InputTokens = <<>>
  /\ log = <<>>

\* C9: without -r and with end of input at once, exactly one batch is made,
\* it holds the fixed arguments alone, it is executed (unless declined at the
\* -p prompt), and the loop then stops.
C9_EmptyInput ==
  (Started /\ ~FLAG("r") /\ given.stdin = <<>>) =>
    /\ Len(log) <= 1
    /\ pc \notin {"fatal", "overflow"}
    /\ pc = "exit" =>
         /\ Len(log) = 1
         /\ log[1].argv = toys.optargs
         /\ ~FLAG("p") => log[1].ran

\* C9 witness: the empty input ended after the one batch ran
C9_Witness ==
  /\ pc = "exit" /\ ~FLAG("r") /\ given.stdin = <<>>
  /\ Len(Executed) = 1
  /\ Executed[1].argv = <<Echo>>

\* C10: with -0 every record of the input is one token, blanks and all, and
\* the batches one after the other are the records in input order, none left
\* out and none twice once the run has ended.
C10_NullRecords ==
  (Started /\ ~WhitespaceMode) =>
    /\ IsPrefix(Flatten(log), Records(given.stdin))
    /\ pc = "exit" => Flatten(Executed) = Records(given.stdin)

\* C10 witness: the input a NUL a-blank-a NUL ran as the two tokens
C10_Witness ==
  /\ pc = "exit" /\ ~WhitespaceMode
  /\ given.stdin = <<"a", NUL, "a", SP, "a", NUL>>
  /\ Flatten(Executed) = <<<<"a">>, <<"a", SP, "a">>>>

Last(s) == s[Len(s)]

\* the decoding the shell convention gives: the exit code, or 128 + signal
Expected(w) == IF w.exited THEN w.n ELSE 128 + w.n

\* C11: after every wait the decoded status is the child's exit code
\* unchanged when it exited, and 128 + S when signal S ended it.
C11_Decoding == reaped # NULL => status = Ptr(Expected(reaped[1]))

\* the words of the fragment kept for the next batch
LeftWords == IF data = NULL THEN <<>> ELSE Words(data[1])

\* C12: under -n and -s limits (whitespace mode, no stop string, no fatal
\* error) no token is split at a batch boundary: between batches the tokens
\* already batched, the words of the fragment kept back and the words of the
\* unread input are together the input's words, so the token the budget ran
\* out in leads the next batch whole, and the batches hold every input token
\* once, in order.
C12_WholeTokens ==
  (Started /\ WhitespaceMode /\ TT.E = NULL /\ TextInput /\ pc # "fatal") =>
    /\ IsPrefix(Flatten(log), Words(given.stdin))
    /\ pc = "loop" =>
         Flatten(log) \o LeftWords \o Words(stdin) = Words(given.stdin)
    /\ pc = "exit" => Flatten(Executed) = Words(given.stdin)

\* C12 witness: under -s 6 the budget ran out inside bb, and the batches
\* were aa and then bb
C12_Witness ==
  /\ pc = "exit" /\ TT.n = 0 /\ TT.E = NULL /\ given.s = 6
  /\ Len(Executed) = 2
  /\ Collected(Executed[1]) = <<<<"a", "a">>>>
  /\ Collected(Executed[2]) = <<<<"b", "b">>>>

\* C13: for every batch the filling pass over the retained lines, from the
\* reset counts, stores exactly the tokens the counting pass counted, one per
\* slot in order, and ends with the same counts; the stores stay inside out,
\* whose size is prefix + counted + 1, and its last slot stays NULL.
C13_CountFillAgree ==
  /\ pc # "overflow"
  /\ pc = "fill" =>
       LET f == FillPass(FillReset(TT, bytes), dlist, 1)
       IN  /\ f.TT.entries = TT.entries
           /\ f.TT.bytes = TT.bytes
           /\ Len(f.writes) = TT.entries
           /\ \A k \in 1..Len(f.writes) : f.writes[k].idx = k - 1
  /\ pc = "confirm" =>
       /\ Len(out) = entries + TT.entries + 1
       /\ out[Len(out)] = NULL
       /\ \A k \in 1..(Len(out) - 1) : out[k] # NULL

\* C13 witness: a vector filled from two lines, with a fragment kept back
C13_Witness ==
  /\ pc = "confirm"
  /\ Len(dlist) = 2 /\ TT.entries = 2 /\ data # NULL
  /\ Len(out) = entries + 3

\* C14: whenever the accumulation of a new batch begins, no line of an
\* earlier batch is still on the list.
C14_PendingEmpty == (pc = "loop" /\ LoopCond(data, done)) => dlist = <<>>

\* C15: with -p, a batch answered "no" has no child (a child in flight is
\* always the batch last prompted for, answered yes), its tokens are not
\* offered again, and the batches after it go on with the next tokens: the
\* batches prompted for, run or not, are the input's tokens in order, all of
\* them at the end when no stop string ended the input.
C15_Declined ==
  (Started /\ FLAG("p")) =>
    /\ pc \in {"spawn", "wait"} => Last(log).ran
    /\ child # <<>> => (Last(log).ran /\ child = <<Last(log).argv>>)
    /\ (WhitespaceMode => TextInput) =>
         /\ IsPrefix(Flatten(log), InputTokens)
         /\ (pc = "exit" /\ ~stopHit) => Flatten(log) = InputTokens

\* C15 witness: the first batch was declined, the second ran with the token
\* after it
C15_Witness ==
  /\ pc = "exit" /\ FLAG("p") /\ TT.n = 1
  /\ Len(log) >= 2
  /\ ~log[1].ran /\ log[2].ran
  /\ Collected(log[1]) # <<>>
  /\ Collected(log[2]) # <<>>
  /\ Len(Executed) = 1

\* C16: /dev/tty is opened at most once, and only when the first prompt is
\* made; it then stays open over all batches and is closed when the loop has
\* ended.
C16_TtyHandle ==
  /\ ttyfile.opens <= 1
  /\ ttyfile.closes <= ttyfile.opens
  /\ ttyfile.opens = 1 <=> (FLAG("p") /\ log # <<>>)
  /\ ttyfile.opens = 1 <=> TT.tty # NULL
  /\ pc # "exit" => ttyfile.closes = 0
  /\ pc = "exit" => ttyfile.closes = ttyfile.opens

\* C16 witness: two prompts, one open, and the close at the end
C16_Witness ==
  /\ pc = "exit" /\ Len(log) >= 2
  /\ ttyfile = [opens |-> 1, closes |-> 1]

\* C17: at most one child is in flight, it is in flight only while the
\* parent waits for it, and while it is, the vector and the lines its
\* arguments lie in are as they were when it was started; the lines are
\* freed, and the next batch begun, only after the wait.
C17_Sequential ==
  /\ Len(child) <= 1
  /\ child # <<>> =>
       /\ pc = "wait"
       /\ child[1] = Argv(out, toys.optargs, dlist)

\* C17 witness: the child of a second batch is being waited for
C17_Witness ==
  /\ pc = "wait" /\ Len(child) = 1
  /\ Len(Executed) = 2
  /\ Len(child[1]) > entries

\* C18: the loop ends: it is never back at its test with the unread input,
\* the fragment kept back and done all as they were when the body was last
\* entered (from where the same pass would be made again, for ever).
C18_Progress ==
  (pc = "loop" /\ mark # NULL) => mark[1] # <<stdin, data, done>>

\* C19: without -r and without a stop string, when the input holds a token,
\* every executed batch holds at least one token.
C19_NoEmptyRun ==
  (/\ Started /\ ~FLAG("r") /\ TT.E = NULL
   /\ WhitespaceMode => TextInput
   /\ InputTokens # <<>>) =>
    \A k \in 1..Len(Executed) : Collected(Executed[k]) # <<>>

====
